---- MODULE Spec2Model ----
(***************************************************************************)
(* Fleet scheduler of tweet_bots.py: the health table (BigQuery            *)
(* twitexpr.twit.bots), the liveness classifier parse_bot_statuses, the   *)
(* pacing helpers calc_long_sleep_duration / log_sleep and the control     *)
(* loop main(), one action per statement group of main().                  *)
(* Time is in whole seconds; the wall clock only advances in sleeps.       *)
(***************************************************************************)
EXTENDS Integers, Sequences, FiniteSets, TLC

\* ---------------------------------------------------------------- bounds
\* cycles of main() explored per run (counted ones and retried ones)
MaxCycles == 2
\* failures of the external services (content source, BigQuery insert) per run
MaxFaults == 1
\* rows of the table handed to the classifier on its own
MaxTableRows == 2
\* largest n_per_day and longest eligible list handed to the pacing on its
\* own; 7 is the least target that does not divide 86400
MaxPaceTarget == 7
MaxEligible == 3
\* largest n_per_day of the configurations explored
MaxNPerDay == 1
\* random.uniform(lower, upper) is sampled on a grid of SleepGrid+1 points
SleepGrid == 1

\* ------------------------------------------------------------- constants
\* secrets['twitter_accounts']: the configured fleet
twitter_accounts == {"UmichMisinfoObs", "bot_b"}
\* a username left in the table by an earlier fleet, absent from secrets
RetiredBot == "retired_bot"
\* the account the experiment branch posts from while is_test holds
TestAccount == "UmichMisinfoObs"
\* CONFIG['is_test']: asserted True at import, read_config rejects False
is_test == TRUE
\* parse_bot_statuses default check_again_after = 60 * 60 * 24
check_again_after == 86400
\* calc_long_sleep_duration: daily_seconds = 60*60*24
daily_seconds == 86400
\* time.sleep(60) of the cycle-level exception handlers
RetrySleep == 60
\* log_sleep replaces a non-positive lower bound by (60, 120)
ClampLower == 60
ClampUpper == 120
\* config.yaml short_sleep, in minutes, of the configurations explored
ShortSleepMinutes == 1

\* the strings post_tweet returns: 'success' and, of its eight error strings
\* (all handled alike by the callers), two
Failures == {"Error: Rate limit exceeded (429)", "Error: Server Error (5xx)"}
Outcomes == {"success"} \cup Failures

\* ----------------------------------------------------------------- state
VARIABLES
  store,                \* rows of twitexpr.twit.bots, in insertion order
  now,                  \* datetime.utcnow(), seconds
  CONFIG,               \* read_config("config.yaml")
  pc,                   \* position of main()
  MSGS_ATTEMPTED,
  alive_bot_usernames,  \* list returned by parse_bot_statuses
  LONG_SLEEP_DURATION,
  branch,               \* "gpt" or "expr": outcome of random.random() <= gpt_percent
  idx,                  \* position of the for loop in alive_bot_info
  account_info,         \* username of the account_info in use
  status,               \* value returned by post_tweet
  stop_requested,       \* an operator has asked the run to stop
  cycles,               \* iterations of the while loop started
  faults,               \* failures of external services so far
  cycle_start,          \* snapshot taken when the iteration started
  trace                 \* events of the current iteration

vars == <<store, now, CONFIG, pc, MSGS_ATTEMPTED, alive_bot_usernames,
          LONG_SLEEP_DURATION, branch, idx, account_info, status,
          stop_requested, cycles, faults, cycle_start, trace>>

N_PER_DAY == CONFIG.n_per_day

\* ------------------------------------------------------------- helpers
Range(s) == {s[i] : i \in DOMAIN s}

\* math.ceil(a / b) for integers, b # 0
CeilDiv(a, b) ==
  IF b > 0 THEN -((-a) \div b) ELSE -(a \div (-b))

\* read_config: minutes to seconds
read_config(n, sn, ln) ==
  [n_per_day |-> n,
   short_sleep_seconds |-> ShortSleepMinutes * 60,
   short_sleep_noise_seconds |-> sn * 60,
   long_sleep_noise_seconds |-> ln * 60]

\* the configurations explored: n_per_day from -1 up, no short-sleep noise,
\* long-sleep noise of 0 or 1 minute
Configs ==
  {read_config(n, sn, ln) : n \in -1..MaxNPerDay, sn \in {0}, ln \in {0, 1}}

\* random.uniform(a, b), sampled
uniform(a, b) == {a + (k * (b - a)) \div SleepGrid : k \in 0..SleepGrid}

\* log_sleep that replaces the bounds only when lower is negative
log_sleep_negative_only(lower, upper) ==
  IF lower < 0 THEN uniform(ClampLower, ClampUpper) ELSE uniform(lower, upper)

\* log_sleep, lines 38-42 and 56-57: the amounts it may sleep for
log_sleep(lower, upper) ==
  IF lower <= 0 THEN uniform(ClampLower, ClampUpper) ELSE uniform(lower, upper)

\* ---------------------------------------------------------- health store
Row(u, st, dt) == [bot_username |-> u, status |-> st, dt |-> dt]

Usernames(s) == {s[i].bot_username : i \in DOMAIN s}

\* SELECT bot_username, MAX(dt) ... GROUP BY bot_username
latest_dt(s, u) ==
  CHOOSE d \in {s[i].dt : i \in {j \in DOMAIN s : s[j].bot_username = u}} :
    \A i \in DOMAIN s : s[i].bot_username = u => s[i].dt <= d

\* the rows the INNER JOIN keeps
LatestRows(s) ==
  {s[i] : i \in {j \in DOMAIN s : s[j].dt = latest_dt(s, s[j].bot_username)}}

\* get_bot_statuses: the dicts it may return, as lists of rows in key order.
\* The query has no ORDER BY: any key order, and any of the rows that tie on
\* MAX(dt) for a username.
get_bot_statuses(s) ==
  LET n == Cardinality(Usernames(s))
  IN  {f \in [1..n -> LatestRows(s)] :
         {f[i].bot_username : i \in 1..n} = Usernames(s)}

\* IsAlive without the age test: every logged bot is tried again
IsAliveIgnoringAge(info, t, after) ==
  \/ info.status = "success"
  \/ t - info.dt >= 0

\* IsAlive with a strict comparison: a death exactly check_again_after old
\* is still too recent
IsAliveStrict(info, t, after) ==
  \/ info.status = "success"
  \/ t - info.dt > after

\* parse_bot_statuses, lines 185-200: one row is alive
IsAlive(info, t, after) ==
  \/ info.status = "success"
  \/ t - info.dt >= after

\* parse_bot_statuses(bot_statuses, check_again_after) evaluated at time t
parse_bot_statuses(bot_statuses, t, after) ==
  LET kept == SelectSeq(bot_statuses, LAMBDA info : IsAlive(info, t, after))
  IN  [i \in 1..Len(kept) |-> kept[i].bot_username]

\* calc_long_sleep_duration that rounds down
calc_long_sleep_duration_floor(N, alive_bots, ss) ==
  (daily_seconds - ss * N * Len(alive_bots)) \div N

\* calc_long_sleep_duration(N_PER_DAY, alive_bots, short_sleep), N # 0
calc_long_sleep_duration(N, alive_bots, ss) ==
  LET sum_short_sleeps == ss * N * Len(alive_bots)
      available_daily_seconds == daily_seconds - sum_short_sleeps
  IN  CeilDiv(available_daily_seconds, N)

\* ------------------------------------------------------------------ Init
NoSnapshot == [msgs |-> 0, now |-> 0, statuses |-> <<>>]

\* what the table may hold when the operator starts: nothing, a row of a
\* username no longer in secrets, or a row of one account of a fleet that has
\* grown since
InitStores ==
  {<<>>, <<Row(RetiredBot, "success", 0)>>, <<Row("bot_b", "success", 0)>>}

Init ==
  /\ store \in InitStores
  /\ now = 0
  /\ CONFIG \in Configs
  /\ pc = "Idle"
  /\ MSGS_ATTEMPTED = 0
  /\ alive_bot_usernames = <<>>
  /\ LONG_SLEEP_DURATION = 0
  /\ branch = "none"
  /\ idx = 0
  /\ account_info = "none"
  /\ status = "none"
  /\ stop_requested = FALSE
  /\ cycles = 0
  /\ faults = 0
  /\ cycle_start = NoSnapshot
  /\ trace = <<>>

\* ------------------------------------------------------- initiate script
\* load_credentials: the usernames of secrets['twitter_accounts'], in order
TWITTER_USERNAMES == <<"UmichMisinfoObs", "bot_b">>

\* the rows insert_bots builds: every username with status 'success'
insert_bots_rows(bot_usernames, t) ==
  [i \in 1..Len(bot_usernames) |-> Row(bot_usernames[i], "success", t)]

\* initiate_bot_status.main(): run by the operator before the scheduler, for
\* a fleet that has no row yet; insert_rows_json either stores the rows or
\* returns errors
insert_bots ==
  /\ pc = "Idle"
  /\ Usernames(store) \cap twitter_accounts = {}
  /\ \/ store' = store \o insert_bots_rows(TWITTER_USERNAMES, now)
     \/ store' = store
  /\ UNCHANGED <<now, CONFIG, pc, MSGS_ATTEMPTED, alive_bot_usernames,
                 LONG_SLEEP_DURATION, branch, idx, account_info, status,
                 stop_requested, cycles, faults, cycle_start, trace>>

\* ---------------------------------------------------------------- main()
\* one step of the current iteration: what was done, for which account, with
\* which status string, and how the call ended
Event(e, a, st, res) == [ev |-> e, account |-> a, status |-> st, result |-> res]

\* lines 248-251
Start ==
  /\ pc = "Idle"
  /\ pc' = "LoopTest"
  /\ MSGS_ATTEMPTED' = 0
  /\ UNCHANGED <<store, now, CONFIG, alive_bot_usernames,
                 LONG_SLEEP_DURATION, branch, idx, account_info, status,
                 stop_requested, cycles, faults, cycle_start, trace>>

\* the loop condition of line 253
LoopCondition == MSGS_ATTEMPTED <= N_PER_DAY

\* line 253: while MSGS_ATTEMPTED <= N_PER_DAY
LoopTest ==
  /\ pc = "LoopTest"
  /\ IF LoopCondition
       THEN /\ cycles < MaxCycles
            /\ pc' = "Select"
            /\ cycles' = cycles + 1
            /\ cycle_start' = [msgs |-> MSGS_ATTEMPTED, now |-> now,
                               statuses |-> <<>>]
            /\ trace' = <<>>
       ELSE /\ pc' = "Done"
            /\ UNCHANGED <<cycles, cycle_start, trace>>
  /\ UNCHANGED <<store, now, CONFIG, MSGS_ATTEMPTED, alive_bot_usernames,
                 LONG_SLEEP_DURATION, branch, idx, account_info, status,
                 stop_requested, faults>>

\* line 257 raises: the query of get_bot_statuses fails, outside any try
SelectRaises ==
  /\ pc = "Select"
  /\ pc' = "Crashed"
  /\ trace' = Append(trace, Event("get_bot_statuses", "none", "none", "raise"))
  /\ UNCHANGED <<store, now, CONFIG, MSGS_ATTEMPTED, alive_bot_usernames,
                 LONG_SLEEP_DURATION, branch, idx, account_info, status,
                 stop_requested, cycles, faults, cycle_start>>

\* lines 257-262: eligible accounts, their credentials, the long sleep, and
\* the draw that picks the branch
Select ==
  /\ pc = "Select"
  /\ \E bot_statuses \in get_bot_statuses(store) :
       LET alive == parse_bot_statuses(bot_statuses, now, check_again_after)
       IN  /\ alive_bot_usernames' = alive
           /\ cycle_start' = [cycle_start EXCEPT !.statuses = bot_statuses]
           /\ IF ~(Range(alive) \subseteq twitter_accounts)
                THEN \* line 259: KeyError, outside any try
                     /\ pc' = "Crashed"
                     /\ trace' = Append(trace, Event("alive_bot_info", "none", "none", "raise"))
                     /\ UNCHANGED <<LONG_SLEEP_DURATION, branch, idx>>
                ELSE IF N_PER_DAY = 0
                THEN \* line 225: ZeroDivisionError, outside any try
                     /\ pc' = "Crashed"
                     /\ trace' = Append(trace, Event("calc_long_sleep_duration",
                                                     "none", "none", "raise"))
                     /\ UNCHANGED <<LONG_SLEEP_DURATION, branch, idx>>
                ELSE /\ LONG_SLEEP_DURATION' =
                          calc_long_sleep_duration(N_PER_DAY, alive,
                                                   CONFIG.short_sleep_seconds)
                     /\ \E b \in {"gpt", "expr"} :
                          /\ branch' = b
                          /\ pc' = IF b = "gpt" THEN "Content" ELSE "For"
                     /\ idx' = 1
                     /\ trace' = trace
  /\ UNCHANGED <<store, now, CONFIG, MSGS_ATTEMPTED, account_info, status,
                 stop_requested, cycles, faults>>

\* how lines 267-274 may end: "ok" with a tweet text; "raise" when
\* parse_arxiv_urls returns [] (random.choice raises IndexError) or
\* get_chatgpt_tweet returns None (clean_chatgpt_tweet raises AttributeError);
\* "empty" when the text ChatGPT returned is '' or hashtags only, so that
\* clean_chatgpt_tweet returns ''
ContentResults == {"ok", "raise", "empty"}

\* lines 267-274: parse_arxiv_urls, random.choice, get_chatgpt_tweet,
\* clean_chatgpt_tweet. Line 272 appends "\nRead more: {link}" before line
\* 273 tests the text, so an empty text does not raise
Content ==
  /\ pc = "Content"
  /\ \E res \in ContentResults :
       /\ res = "ok" \/ faults < MaxFaults
       /\ pc' = IF res = "raise" THEN "Except" ELSE "For"
       /\ faults' = IF res = "ok" THEN faults ELSE faults + 1
       /\ trace' = Append(trace, Event("content", "none", "none", res))
  /\ UNCHANGED <<store, now, CONFIG, MSGS_ATTEMPTED, alive_bot_usernames,
                 LONG_SLEEP_DURATION, branch, idx, account_info, status,
                 stop_requested, cycles, cycle_start>>

\* For that lets an account of the generated-content branch act without the
\* short sleep
ForSkippingSleep ==
  /\ pc = "For"
  /\ IF idx > Len(alive_bot_usernames)
       THEN /\ pc' = "Incr"
            /\ UNCHANGED <<account_info, trace>>
       ELSE IF branch = "expr" /\ is_test
       THEN IF TestAccount \in Range(alive_bot_usernames)
              THEN /\ account_info' = TestAccount
                   /\ pc' = "ShortSleep"
                   /\ trace' = trace
              ELSE /\ pc' = "Except"
                   /\ trace' = Append(trace, Event("account_info", TestAccount, "none", "raise"))
                   /\ UNCHANGED account_info
       ELSE /\ account_info' = alive_bot_usernames[idx]
            /\ pc' = "Post"
            /\ trace' = trace
  /\ UNCHANGED <<store, now, CONFIG, MSGS_ATTEMPTED, alive_bot_usernames,
                 LONG_SLEEP_DURATION, branch, idx, status, stop_requested,
                 cycles, faults, cycle_start>>

\* lines 276-278 and 295-300: next account of alive_bot_info, or loop exit
For ==
  /\ pc = "For"
  /\ IF idx > Len(alive_bot_usernames)
       THEN /\ pc' = "Incr"
            /\ UNCHANGED <<account_info, trace>>
       ELSE IF branch = "expr" /\ is_test
       THEN \* line 297: alive_bot_info['UmichMisinfoObs']
            IF TestAccount \in Range(alive_bot_usernames)
              THEN /\ account_info' = TestAccount
                   /\ pc' = "ShortSleep"
                   /\ trace' = trace
              ELSE /\ pc' = "Except"
                   /\ trace' = Append(trace, Event("account_info", TestAccount, "none", "raise"))
                   /\ UNCHANGED account_info
       ELSE /\ account_info' = alive_bot_usernames[idx]
            /\ pc' = "ShortSleep"
            /\ trace' = trace
  /\ UNCHANGED <<store, now, CONFIG, MSGS_ATTEMPTED, alive_bot_usernames,
                 LONG_SLEEP_DURATION, branch, idx, status, stop_requested,
                 cycles, faults, cycle_start>>

\* lines 279-281 and 301-303: the short sleep before the account acts
ShortSleep ==
  /\ pc = "ShortSleep"
  /\ \E amount \in log_sleep(
         CONFIG.short_sleep_seconds - CONFIG.short_sleep_noise_seconds,
         CONFIG.short_sleep_seconds + CONFIG.short_sleep_noise_seconds) :
       now' = now + amount
  /\ trace' = Append(trace, Event("short_sleep", account_info, "none", "ok"))
  /\ IF branch = "gpt"
       THEN pc' = "Post" /\ UNCHANGED status
       ELSE pc' = "Log" /\ status' = "success"
  /\ UNCHANGED <<store, CONFIG, MSGS_ATTEMPTED, alive_bot_usernames,
                 LONG_SLEEP_DURATION, branch, idx, account_info,
                 stop_requested, cycles, faults, cycle_start>>

\* line 282: post_tweet maps every exception to a status string
post_tweet ==
  /\ pc = "Post"
  /\ \E st \in Outcomes : status' = st
  /\ pc' = "Log"
  /\ trace' = Append(trace, Event("post", account_info, status', "ok"))
  /\ UNCHANGED <<store, now, CONFIG, MSGS_ATTEMPTED, alive_bot_usernames,
                 LONG_SLEEP_DURATION, branch, idx, account_info,
                 stop_requested, cycles, faults, cycle_start>>

\* log_bot_status(username, status): what insert_rows_json may do
InsertResults == {"ok", "errors", "raise"}

\* InsertStatus inside a transaction of the cycle: a raising insert takes the
\* rows the cycle has written back out of the table
InsertStatusAtomic(username, st) ==
  /\ pc = "Log"
  /\ \E res \in InsertResults :
       /\ res = "ok" \/ faults < MaxFaults
       /\ faults' = IF res = "ok" THEN faults ELSE faults + 1
       /\ store' = IF res = "ok" THEN Append(store, Row(username, st, now))
                   ELSE IF res = "errors" THEN store
                   ELSE SelectSeq(store, LAMBDA r : r.dt <= cycle_start.now)
       /\ trace' = Append(trace, Event("log", username, st, res))
       /\ IF res = "raise"
            THEN pc' = "Except" /\ UNCHANGED idx
            ELSE pc' = "For" /\ idx' = idx + 1
  /\ UNCHANGED <<now, CONFIG, MSGS_ATTEMPTED, alive_bot_usernames,
                 LONG_SLEEP_DURATION, branch, account_info, status,
                 stop_requested, cycles, cycle_start>>

\* InsertStatus that keeps one row per username: a second status of an
\* account overwrites its row
InsertStatusUpsert(username, st) ==
  /\ pc = "Log"
  /\ \E res \in InsertResults :
       /\ res = "ok" \/ faults < MaxFaults
       /\ faults' = IF res = "ok" THEN faults ELSE faults + 1
       /\ store' = IF res # "ok" THEN store
                   ELSE IF username \in Usernames(store)
                   THEN [i \in DOMAIN store |->
                           IF store[i].bot_username = username
                             THEN Row(username, st, now) ELSE store[i]]
                   ELSE Append(store, Row(username, st, now))
       /\ trace' = Append(trace, Event("log", username, st, res))
       /\ IF res = "raise"
            THEN pc' = "Except" /\ UNCHANGED idx
            ELSE pc' = "For" /\ idx' = idx + 1
  /\ UNCHANGED <<now, CONFIG, MSGS_ATTEMPTED, alive_bot_usernames,
                 LONG_SLEEP_DURATION, branch, account_info, status,
                 stop_requested, cycles, cycle_start>>

\* lines 129-136 called from lines 283 and 305: the row built from the
\* username and the status handed over, inserted or not
InsertStatus(username, st) ==
  /\ pc = "Log"
  /\ \E res \in InsertResults :
       /\ res = "ok" \/ faults < MaxFaults
       /\ faults' = IF res = "ok" THEN faults ELSE faults + 1
       /\ store' = IF res = "ok"
                     THEN Append(store, Row(username, st, now))
                     ELSE store
       /\ trace' = Append(trace, Event("log", username, st, res))
       /\ IF res = "raise"
            THEN pc' = "Except" /\ UNCHANGED idx
            ELSE pc' = "For" /\ idx' = idx + 1
  /\ UNCHANGED <<now, CONFIG, MSGS_ATTEMPTED, alive_bot_usernames,
                 LONG_SLEEP_DURATION, branch, account_info, status,
                 stop_requested, cycles, cycle_start>>

\* lines 285 and 307: MSGS_ATTEMPTED += 1
Incr ==
  /\ pc = "Incr"
  /\ MSGS_ATTEMPTED' = MSGS_ATTEMPTED + 1
  /\ pc' = "LongSleep"
  /\ trace' = Append(trace, Event("incr", "none", "none", "ok"))
  /\ UNCHANGED <<store, now, CONFIG, alive_bot_usernames,
                 LONG_SLEEP_DURATION, branch, idx, account_info, status,
                 stop_requested, cycles, faults, cycle_start>>

\* lines 286-288 and 308-310: the long sleep that ends a counted cycle
LongSleep ==
  /\ pc = "LongSleep"
  /\ \E amount \in log_sleep(
         LONG_SLEEP_DURATION - CONFIG.long_sleep_noise_seconds,
         LONG_SLEEP_DURATION + CONFIG.long_sleep_noise_seconds) :
       now' = now + amount
  /\ pc' = "LoopTest"
  /\ trace' = Append(trace, Event("long_sleep", "none", "none", "ok"))
  /\ UNCHANGED <<store, CONFIG, MSGS_ATTEMPTED, alive_bot_usernames,
                 LONG_SLEEP_DURATION, branch, idx, account_info, status,
                 stop_requested, cycles, faults, cycle_start>>

\* line 283 with the literal of line 305: the status post_tweet returned is
\* dropped and 'success' is logged
log_bot_status_success ==
  InsertStatus(account_info, "success")

\* lines 283 and 305: log_bot_status(account_info['username'], status)
log_bot_status ==
  InsertStatus(account_info, status)

\* Except that counts the failed cycle as an attempt
ExceptCounting ==
  /\ pc = "Except"
  /\ now' = now + RetrySleep
  /\ pc' = "LoopTest"
  /\ MSGS_ATTEMPTED' = MSGS_ATTEMPTED + 1
  /\ trace' = Append(trace, Event("retry_sleep", "none", "none", "ok"))
  /\ UNCHANGED <<store, CONFIG, alive_bot_usernames,
                 LONG_SLEEP_DURATION, branch, idx, account_info, status,
                 stop_requested, cycles, faults, cycle_start>>

\* lines 289-291 and 311-313: except Exception, time.sleep(60)
Except ==
  /\ pc = "Except"
  /\ now' = now + RetrySleep
  /\ pc' = "LoopTest"
  /\ trace' = Append(trace, Event("retry_sleep", "none", "none", "ok"))
  /\ UNCHANGED <<store, CONFIG, MSGS_ATTEMPTED, alive_bot_usernames,
                 LONG_SLEEP_DURATION, branch, idx, account_info, status,
                 stop_requested, cycles, faults, cycle_start>>

\* the operator asks the running scheduler to stop; no statement of main()
\* or log_sleep reads the request
RequestStop ==
  /\ pc \notin {"Idle", "Done", "Crashed"}
  /\ ~stop_requested
  /\ stop_requested' = TRUE
  /\ UNCHANGED <<store, now, CONFIG, pc, MSGS_ATTEMPTED, alive_bot_usernames,
                 LONG_SLEEP_DURATION, branch, idx, account_info, status,
                 cycles, faults, cycle_start, trace>>

Next ==
  \/ insert_bots
  \/ Start
  \/ LoopTest
  \/ SelectRaises
  \/ Select
  \/ Content
  \/ For
  \/ ShortSleep
  \/ post_tweet
  \/ log_bot_status
  \/ Incr
  \/ LongSleep
  \/ Except

Spec == Init /\ [][Next]_vars

\* the scheduler together with an operator who may ask it to stop
NextStop ==
  \/ Next
  \/ RequestStop

SpecStop == Init /\ [][NextStop]_vars

TypeOK ==
  /\ pc \in {"Idle", "LoopTest", "Select", "Content", "For", "ShortSleep",
             "Post", "Log", "Incr", "LongSleep", "Except", "Done", "Crashed",
             "Classify", "Classified", "Pace"}
  /\ MSGS_ATTEMPTED \in Nat
  /\ now \in Nat
  /\ branch \in {"none", "gpt", "expr"}
  /\ stop_requested \in BOOLEAN

\* ------------------------------------------------ the classifier on its own
\* timestamps and clock readings around the check_again_after boundary
ClassifierDts == {0, 1, 2}
ClassifierNows == {check_again_after, check_again_after + 1}

ClassifierRows ==
  {Row(u, st, dt) : u \in twitter_accounts, st \in Outcomes, dt \in ClassifierDts}

ClassifierStores ==
  UNION {[1..n -> ClassifierRows] : n \in 0..MaxTableRows}

InitClassifier ==
  /\ store \in ClassifierStores
  /\ now \in ClassifierNows
  /\ CONFIG = read_config(1, 0, 0)
  /\ pc = "Classify"
  /\ MSGS_ATTEMPTED = 0
  /\ alive_bot_usernames = <<>>
  /\ LONG_SLEEP_DURATION = 0
  /\ branch = "none"
  /\ idx = 0
  /\ account_info = "none"
  /\ status = "none"
  /\ stop_requested = FALSE
  /\ cycles = 0
  /\ faults = 0
  /\ cycle_start = NoSnapshot
  /\ trace = <<>>

\* line 257 alone: parse_bot_statuses(get_bot_statuses())
Classify ==
  /\ pc = "Classify"
  /\ \E bot_statuses \in get_bot_statuses(store) :
       /\ alive_bot_usernames' =
            parse_bot_statuses(bot_statuses, now, check_again_after)
       /\ cycle_start' = [msgs |-> MSGS_ATTEMPTED, now |-> now,
                          statuses |-> bot_statuses]
  /\ pc' = "Classified"
  /\ UNCHANGED <<store, now, CONFIG, MSGS_ATTEMPTED, LONG_SLEEP_DURATION,
                 branch, idx, account_info, status, stop_requested, cycles,
                 faults, trace>>

NextClassifier == Classify

SpecClassifier == InitClassifier /\ [][NextClassifier]_vars

\* ---------------------------------------------------- the pacing on its own
\* short_sleep_seconds and the noise half-widths, in seconds
PacingBases == {0, 30, 60, 90, 43200}
PacingJitters == {0, 30, 60}

PacingConfigs ==
  [n_per_day : 1..MaxPaceTarget,
   short_sleep_seconds : PacingBases,
   short_sleep_noise_seconds : PacingJitters,
   long_sleep_noise_seconds : PacingJitters]

\* usernames of a larger fleet
PacingNames == <<"UmichMisinfoObs", "bot_b", "bot_c", "bot_d", "bot_e">>

InitPacing ==
  /\ store = <<>>
  /\ now = 0
  /\ CONFIG \in PacingConfigs
  /\ pc = "Pace"
  /\ MSGS_ATTEMPTED = 0
  /\ alive_bot_usernames \in {SubSeq(PacingNames, 1, k) : k \in 0..MaxEligible}
  /\ LONG_SLEEP_DURATION = 0
  /\ branch = "expr"
  /\ idx = 1
  /\ account_info = TestAccount
  /\ status = "none"
  /\ stop_requested = FALSE
  /\ cycles = 1
  /\ faults = 0
  /\ cycle_start = NoSnapshot
  /\ trace = <<>>

\* line 260 alone, followed by one of the two sleeps of the cycle
PaceCalc ==
  /\ pc = "Pace"
  /\ LONG_SLEEP_DURATION' =
       calc_long_sleep_duration(N_PER_DAY, alive_bot_usernames,
                                CONFIG.short_sleep_seconds)
  /\ \/ pc' = "LongSleep"
     \/ alive_bot_usernames # <<>> /\ pc' = "ShortSleep"
  /\ UNCHANGED <<store, now, CONFIG, MSGS_ATTEMPTED, alive_bot_usernames,
                 branch, idx, account_info, status, stop_requested, cycles,
                 faults, cycle_start, trace>>

NextPacing ==
  \/ PaceCalc
  \/ ShortSleep
  \/ LongSleep

SpecPacing == InitPacing /\ [][NextPacing]_vars

\* ------------------------------------------------------------ properties
\* positions of main() between the selection of a cycle and its end
AfterSelect == {"Content", "For", "ShortSleep", "Post", "Log", "Incr"}

\* the rows the cycle read at its start
StartRows == Range(cycle_start.statuses)

\* a row that reports a death younger than check_again_after at cycle start
FreshFailure(r) ==
  /\ r.status # "success"
  /\ cycle_start.now - r.dt < check_again_after

\* C1: every publish attempt and every health-record write of a cycle is for
\* an account of the eligible list computed at the start of that cycle, and
\* never for an account whose latest row, read at the start of the cycle, is a
\* failure younger than the cooldown.
C1ActsOnlyOnEligible ==
  \A i \in DOMAIN trace :
    trace[i].ev \in {"post", "log"} =>
      /\ trace[i].account \in Range(alive_bot_usernames)
      /\ \E r \in StartRows : r.bot_username = trace[i].account
      /\ \A r \in StartRows :
           r.bot_username = trace[i].account => ~FreshFailure(r)

\* C1 witness: an account posts in a cycle that excluded a recently dead one
C1PostWhileOtherExcluded ==
  /\ \E i \in DOMAIN trace : trace[i].ev = "post"
  /\ \E r \in StartRows :
       FreshFailure(r) /\ r.bot_username \notin Range(alive_bot_usernames)

\* C2: an account of the fleet that has no row in the table is in the
\* eligible list computed at the start of the cycle.
C2NewAccountEligible ==
  pc \in AfterSelect =>
    \A a \in twitter_accounts :
      (\A r \in StartRows : r.bot_username # a) =>
        a \in Range(alive_bot_usernames)

EndOfCycle == {"Incr", "LongSleep", "Except"}

\* the rows of the table that carry the latest timestamp of account a
LatestOf(a) == {r \in LatestRows(store) : r.bot_username = a}

\* a failure status post_tweet returned in the current cycle, as the trace
\* position of the post, and whether the insert that followed stored it
FailedPosts ==
  {i \in DOMAIN trace : trace[i].ev = "post" /\ trace[i].status \in Failures}

Stored(i) ==
  /\ i + 1 \in DOMAIN trace
  /\ trace[i + 1].ev = "log"
  /\ trace[i + 1].result = "ok"

\* the failure of trace position i is the latest row of its account
IsLatestRow(i) ==
  /\ LatestOf(trace[i].account) # {}
  /\ \A r \in LatestOf(trace[i].account) :
       r.status = trace[i].status /\ r.dt > cycle_start.now

\* a failure row of the table, written before the current cycle started and
\* younger than the cooldown when it started, keeps its account out of the
\* cycle
FailureRowsExclude ==
  pc \in AfterSelect =>
    \A k \in DOMAIN store :
      (/\ store[k].status \in Failures
       /\ store[k].dt <= cycle_start.now
       /\ cycle_start.now - store[k].dt < check_again_after) =>
        store[k].bot_username \notin Range(alive_bot_usernames)

C5EmptyCycleNotCounted ==
  [][MSGS_ATTEMPTED' # MSGS_ATTEMPTED =>
       /\ alive_bot_usernames # <<>>
       /\ \E i \in DOMAIN trace : trace[i].ev = "log"]_vars

\* C6: no cycle starts once MSGS_ATTEMPTED equals n_per_day, so the counter
\* never exceeds the daily target.
C6NeverExceedsTarget ==
  N_PER_DAY >= 1 =>
    /\ pc = "Select" => MSGS_ATTEMPTED < N_PER_DAY
    /\ MSGS_ATTEMPTED <= N_PER_DAY

\* C7: no exception raised by a step of a cycle ends the scheduler loop.
C7LoopNeverTerminatesOnException ==
  pc # "Crashed"

\* C8: a cycle that ends in the except clause has not changed MSGS_ATTEMPTED,
\* has not taken the long sleep, and sleeps exactly the 60-second cooldown
\* before the loop condition is tested again.
C8HandlerKeepsCounter ==
  [][pc = "Except" =>
       /\ MSGS_ATTEMPTED = cycle_start.msgs
       /\ MSGS_ATTEMPTED' = MSGS_ATTEMPTED
       /\ now' = now + RetrySleep
       /\ pc' = "LoopTest"
       /\ \A i \in DOMAIN trace' : trace'[i].ev # "long_sleep"]_vars

\* C8 witness: the cooldown has been slept after a cycle that had already
\* written a row for one account
C8RetriedAfterPartialCycle ==
  /\ pc = "LoopTest"
  /\ trace # <<>>
  /\ trace[Len(trace)].ev = "retry_sleep"
  /\ \E i \in DOMAIN trace : trace[i].ev = "log" /\ trace[i].result = "ok"
  /\ MSGS_ATTEMPTED = cycle_start.msgs

\* C9: a failed insert for one account, reported as an error list or raised,
\* does not end the cycle: the loop goes on to the next account.
C9WriteFailureDoesNotHalt ==
  [][(pc = "Log" /\ pc' # "Log") => pc' = "For"]_vars

\* C10: once a stop has been requested no further cycle starts and no further
\* publish happens.
C10StopIsObserved ==
  [][stop_requested =>
       /\ ~(pc = "LoopTest" /\ pc' = "Select")
       /\ ~(pc = "Post" /\ pc' = "Log")]_vars

\* seconds of short sleep the calculation reserves: sum_short_sleeps
ReservedShortSleeps ==
  CONFIG.short_sleep_seconds * N_PER_DAY * Len(alive_bot_usernames)

\* L is the least whole number of seconds with L * n >= budget
IsCeilOf(L, budget, n) ==
  /\ L * n >= budget
  /\ (L - 1) * n < budget

\* C11 (as stated): the long sleep before jitter is
\* ceil((86400 - short_sleep_base * eligible_count) / daily_target).
C11LongSleepPerCycleReservation ==
  pc # "Pace" =>
    IsCeilOf(LONG_SLEEP_DURATION,
             daily_seconds - CONFIG.short_sleep_seconds * Len(alive_bot_usernames),
             N_PER_DAY)

\* C11 (amended): the long sleep before jitter is
\* ceil((86400 - short_sleep_base * daily_target * eligible_count) / daily_target).
C11LongSleepPerDayReservation ==
  pc # "Pace" =>
    IsCeilOf(LONG_SLEEP_DURATION, daily_seconds - ReservedShortSleeps, N_PER_DAY)

\* C11 witness: a target above one with eligible accounts and a remainder that
\* has to be rounded up
C11RoundedUp ==
  /\ pc # "Pace"
  /\ N_PER_DAY > 1
  /\ alive_bot_usernames # <<>>
  /\ CONFIG.short_sleep_seconds > 0
  /\ LONG_SLEEP_DURATION * N_PER_DAY > daily_seconds - ReservedShortSleeps

\* C12: when the short-sleep reservation exceeds the 86400-second budget the
\* calculation does not return: no duration reaches the sleeps of the cycle.
C12OverBudgetIsAnError ==
  ReservedShortSleeps > daily_seconds => pc = "Pace"

\* the amount the short sleep took, once it has been slept
ShortSlept == pc = "Log"

\* C13 (as stated): the short sleep lies within
\* [max(60, base - jitter), base + jitter] and is never <= 0.
C13ShortSleepClamped ==
  ShortSlept =>
    LET lo == CONFIG.short_sleep_seconds - CONFIG.short_sleep_noise_seconds
        up == CONFIG.short_sleep_seconds + CONFIG.short_sleep_noise_seconds
    IN  /\ now >= (IF lo > ClampLower THEN lo ELSE ClampLower)
        /\ now <= up
        /\ now > 0

\* C13 (amended): for jitter >= 0 the short sleep lies within
\* [base - jitter, base + jitter] when base - jitter > 0 and within [60, 120]
\* when base - jitter <= 0, and is never <= 0.
C13ShortSleepRange ==
  ShortSlept =>
    LET lo == CONFIG.short_sleep_seconds - CONFIG.short_sleep_noise_seconds
        up == CONFIG.short_sleep_seconds + CONFIG.short_sleep_noise_seconds
    IN  /\ lo > 0 => (lo <= now /\ now <= up)
        /\ lo <= 0 => (ClampLower <= now /\ now <= ClampUpper)
        /\ now > 0

\* C13 witness: the bounds were replaced and the sleep is longer than
\* base + jitter
C13ReplacedRange ==
  /\ ShortSlept
  /\ CONFIG.short_sleep_seconds - CONFIG.short_sleep_noise_seconds <= 0
  /\ now > CONFIG.short_sleep_seconds + CONFIG.short_sleep_noise_seconds

\* C14: with n_per_day <= 0 the scheduler refuses to run: it reads no status,
\* starts no cycle, and ends neither in Done nor in an uncaught crash.
C14NonPositiveTargetRejected ==
  N_PER_DAY <= 0 =>
    /\ cycles = 0
    /\ pc \notin {"Select", "Done", "Crashed"}

\* of the rows of username u that carry its greatest timestamp, the one
\* inserted last
LaterInserted(s, u) ==
  LET tied == {i \in DOMAIN s : s[i].bot_username = u /\ s[i].dt = latest_dt(s, u)}
  IN  s[CHOOSE i \in tied : \A j \in tied : j <= i]

\* C15: get_bot_statuses returns exactly one entry for every username of the
\* table, and that entry is the row with the greatest timestamp of the
\* username, the later-inserted one when two rows tie on it.
C15LatestWithTieBreak ==
  pc = "Classified" =>
    \A u \in Usernames(store) :
      /\ Cardinality({i \in DOMAIN cycle_start.statuses :
                        cycle_start.statuses[i].bot_username = u}) = 1
      /\ \A i \in DOMAIN cycle_start.statuses :
           cycle_start.statuses[i].bot_username = u =>
             cycle_start.statuses[i] = LaterInserted(store, u)

\* C16: the table is append-only: every step of the scheduler and of the
\* provisioning script leaves the rows already stored in place and unchanged.
C16StoreAppendOnly ==
  [][/\ Len(store') >= Len(store)
     /\ SubSeq(store', 1, Len(store)) = store]_vars

\* C16 witness: a provisioned row of an account is still stored below a later
\* row of the same account
C16OlderRowRetained ==
  \E i, j \in DOMAIN store :
    /\ i < j
    /\ store[i].bot_username = store[j].bot_username
    /\ store[i].dt < store[j].dt
    /\ Len(store) > 2

\* C17: a cycle whose content step produced nothing usable publishes nothing,
\* writes no row, leaves MSGS_ATTEMPTED unchanged and takes no long sleep.
C17UnusableContentSkipsCycle ==
  (\E i \in DOMAIN trace :
     trace[i].ev = "content" /\ trace[i].result # "ok") =>
    /\ \A j \in DOMAIN trace :
         trace[j].ev \notin {"post", "log", "incr", "long_sleep"}
    /\ MSGS_ATTEMPTED = cycle_start.msgs

\* number of events of kind e in the first n positions of the trace
CountBefore(e, n) ==
  Cardinality({i \in 1..n : i \in DOMAIN trace /\ trace[i].ev = e})

\* the event that directly precedes the record step of an account
StepBeforeLog == IF branch = "gpt" THEN "post" ELSE "short_sleep"

\* C18: in every cycle an account's short sleep starts only when the previous
\* account's record step is over; a publish directly follows the short sleep
\* of the same account and the record step directly follows the publish (the
\* short sleep where the publish is skipped) of the same account; the counter
\* is incremented once, after the record step of the last eligible account,
\* and the long sleep directly follows the increment.
C18CycleOrder ==
  /\ \A i \in DOMAIN trace :
       /\ trace[i].ev = "short_sleep" =>
            i = 1 \/ trace[i - 1].ev \in {"content", "log"}
       /\ trace[i].ev = "post" =>
            /\ i > 1
            /\ trace[i - 1].ev = "short_sleep"
            /\ trace[i - 1].account = trace[i].account
       /\ trace[i].ev = "log" =>
            /\ i > 1
            /\ trace[i - 1].ev = StepBeforeLog
            /\ trace[i - 1].account = trace[i].account
       /\ trace[i].ev = "incr" =>
            /\ CountBefore("log", i) = Len(alive_bot_usernames)
            /\ CountBefore("short_sleep", i) = Len(alive_bot_usernames)
            /\ CountBefore("incr", i) = 1
            /\ \A j \in DOMAIN trace :
                 j > i => trace[j].ev \notin {"short_sleep", "post", "log"}
       /\ trace[i].ev = "long_sleep" =>
            i > 1 /\ trace[i - 1].ev = "incr"
  /\ MSGS_ATTEMPTED - cycle_start.msgs = CountBefore("incr", Len(trace))

\* C18 witness: a cycle of the generated-content branch with two eligible
\* accounts has been counted and has taken its long sleep
C18TwoAccountCycleDone ==
  /\ trace # <<>>
  /\ trace[Len(trace)].ev = "long_sleep"
  /\ branch = "gpt"
  /\ Len(alive_bot_usernames) = 2
  /\ CountBefore("post", Len(trace)) = 2

\* rows of username a appended since the cycle started
NewRows(a) ==
  {k \in DOMAIN store :
     store[k].bot_username = a /\ store[k].dt > cycle_start.now}

\* C19: when a cycle completes, every eligible account has exactly one new
\* row, keyed by its own username, in either branch.
C19OneRecordPerAccount ==
  pc = "LongSleep" =>
    \A a \in Range(alive_bot_usernames) : Cardinality(NewRows(a)) = 1

\* C20: a cycle with an eligible account ends in the except clause only when
\* an external call (status query, content source, insert) has raised.
C20CompletesUnlessExternalRaise ==
  (pc = "Except" /\ alive_bot_usernames # <<>>) =>
    \E i \in DOMAIN trace :
      /\ trace[i].ev \in {"get_bot_statuses", "content", "log"}
      /\ trace[i].result = "raise"

\* the current iteration has ended in the except clause, before or after its
\* 60-second sleep
Aborted ==
  \/ pc = "Except"
  \/ pc = "LoopTest" /\ trace # <<>> /\ trace[Len(trace)].ev = "retry_sleep"

\* the rows written since the iteration started, and the inserts of the
\* iteration that succeeded, both in order
RowsOfCycle == SelectSeq(store, LAMBDA r : r.dt > cycle_start.now)
StoredLogs ==
  SelectSeq(trace, LAMBDA e : e.ev = "log" /\ e.result = "ok")

\* C21: when an exception aborts a cycle, the rows of the accounts already
\* processed are in the table as written, no step was taken for an account
\* after the one at which the cycle aborted, and MSGS_ATTEMPTED is what it was
\* when the cycle started.
C21AbortKeepsPartialWork ==
  Aborted =>
    /\ MSGS_ATTEMPTED = cycle_start.msgs
    /\ Len(RowsOfCycle) = Len(StoredLogs)
    /\ \A k \in DOMAIN RowsOfCycle :
         /\ RowsOfCycle[k].bot_username = StoredLogs[k].account
         /\ RowsOfCycle[k].status = StoredLogs[k].status
    /\ CountBefore("short_sleep", Len(trace)) <= idx
    /\ CountBefore("post", Len(trace)) <= idx
    /\ CountBefore("log", Len(trace)) <= idx
    /\ branch = "gpt" =>
         \A j \in DOMAIN alive_bot_usernames :
           j > idx =>
             \A i \in DOMAIN trace : trace[i].account # alive_bot_usernames[j]

\* C21 witness: no cycle has been counted, the row an account wrote after
\* publishing in the aborted first cycle is still in the table, and the same
\* account has published again in the retried cycle
C21RepublishedBeforeCount ==
  /\ cycles = 2
  /\ MSGS_ATTEMPTED = 0
  /\ \E a \in twitter_accounts \ {TestAccount} :
       /\ \E k \in DOMAIN store :
            /\ store[k].bot_username = a
            /\ store[k].dt > 0
            /\ store[k].dt <= cycle_start.now
       /\ \E i \in DOMAIN trace :
            trace[i].ev = "post" /\ trace[i].account = a

====
